---- MODULE Spec2Model ----
(***************************************************************************)
(* OnionTransfer (oniontransfer.go): the framing protocol, the receiver    *)
(* loop receiveFileRaw, the senders sendSingleFile / sendDirectoryRaw /    *)
(* sendFilesRaw / sendStdinRaw and the process-wide progress tracker.      *)
(*                                                                         *)
(* Bytes are the integers 0..255.  A stream is the sequence of bytes a     *)
(* connection delivers, together with the way it ends.  Paths are          *)
(* sequences of components, a component being a sequence of bytes; the     *)
(* empty path is ".".  The host is taken to use '/' as its separator.      *)
(***************************************************************************)
EXTENDS Integers, Sequences, FiniteSets, TLC

(***************************************************************************)
(* Program constants and model bounds                                      *)
(***************************************************************************)
maxFilenameLen == 255

\* The code's chunkSize is 32 * 1024 (oniontransfer.go:23).  The model scales
\* it down so that files of a few bytes take several chunks.
chunkSize == 2

\* printProgress prints at once when this many bytes came since the last print.
printStep == 1024

\* Longest list of items a generated stream encodes.
MaxItems == 2

\* Number of times the environment changes a source file during a send.
MaxChanges == 1

\* Largest integer of the model checker (2^31 - 1).
MaxInt == 2147483647

SLASH == 47
DOT == 46

receiveDir == << <<114>> >>

Conns == {1, 2}

(***************************************************************************)
(* Sequences                                                               *)
(***************************************************************************)
Front(s) == SubSeq(s, 1, Len(s) - 1)

Last(s) == s[Len(s)]

Min(a, b) == IF a < b THEN a ELSE b

Drop(s, n) == SubSeq(s, n + 1, Len(s))

Take(s, n) == SubSeq(s, 1, n)

IsPrefix(p, s) == Len(p) <= Len(s) /\ SubSeq(s, 1, Len(p)) = p

\* Concatenation of the sequences of a sequence.
RECURSIVE Flatten(_)
Flatten(ss) == IF ss = <<>> THEN <<>> ELSE Head(ss) \o Flatten(Tail(ss))

\* All sequences over S of length at most n.
SeqsUpTo(S, n) == UNION {[1..k -> S] : k \in 0..n}

(***************************************************************************)
(* Big-endian integers (encoding/binary)                                   *)
(***************************************************************************)
\* A mutant of PutUint32: the bytes are written in little-endian order.
PutUint32_LittleEndian(n) ==
    << n % 256, (n \div 256) % 256, (n \div 65536) % 256, (n \div 16777216) % 256 >>

\* binary.Write of a uint32, for n < 2^31.
PutUint32(n) ==
    << (n \div 16777216) % 256, (n \div 65536) % 256, (n \div 256) % 256, n % 256 >>

\* binary.Write of an int64 in the range of the model checker's integers;
\* a negative number is written in two's complement.
PutInt64(n) ==
    IF n >= 0
    THEN <<0, 0, 0, 0>> \o PutUint32(n)
    ELSE LET m == PutUint32(-(n + 1))
         IN  <<255, 255, 255, 255>> \o [i \in 1..4 |-> 255 - m[i]]

\* binary.Read of a uint32.  A value of 2^31 or more is represented by
\* MaxInt: the code only compares the value with maxFilenameLen.
Uint32(b) ==
    IF b[1] >= 128 THEN MaxInt
    ELSE b[1] * 16777216 + b[2] * 65536 + b[3] * 256 + b[4]

\* binary.Read of an int64.  A value outside the range of the model
\* checker's integers is represented by the nearest end of that range.
Int64(b) ==
    LET lo == SubSeq(b, 5, 8)
    IN  IF b[1] = 0 /\ b[2] = 0 /\ b[3] = 0 /\ b[4] = 0 /\ b[5] < 128
        THEN Uint32(lo)
        ELSE IF b[1] = 255 /\ b[2] = 255 /\ b[3] = 255 /\ b[4] = 255 /\ b[5] >= 128
        THEN -(Uint32([i \in 1..4 |-> 255 - lo[i]])) - 1
        ELSE IF b[1] >= 128 THEN -MaxInt ELSE MaxInt

(***************************************************************************)
(* Errors.  An error is its message; "nil" is no error.                    *)
(***************************************************************************)
EOF == "EOF"

ErrUnexpectedEOF == "unexpected EOF"

ErrReset == "read: connection reset by peer"

ErrTimeout == "read: connection timed out"

ErrTooLong == "filename too long"

\* strings.Contains(err.Error(), sub) for the messages above.
Contains(err, sub) ==
    <<err, sub>> \in { <<ErrUnexpectedEOF, "unexpected EOF">>,
                       <<ErrReset, "reset">> }

\* The error a read returns when the stream has ended in the way `end'.
EndError(end) ==
    CASE end = "eof" -> EOF
      [] end = "reset" -> ErrReset
      [] end = "timeout" -> ErrTimeout

(***************************************************************************)
(* The frame codec                                                         *)
(***************************************************************************)
FileInfo(name, size, isDir) ==
    [Filename |-> name, FileSize |-> size, IsDirectory |-> isDir]

NoInfo == FileInfo(<<>>, 0, FALSE)

\* The bytes sendFileInfo writes for fi.
sendFileInfo(fi) ==
    PutUint32(Len(fi.Filename))
    \o fi.Filename
    \o PutInt64(fi.FileSize)
    \o << IF fi.IsDirectory THEN 1 ELSE 0 >>

\* io.ReadFull(conn, buf) with len(buf) = n on stream s read up to pos, the
\* stream ending as `end' ("open": the peer may still write).  The call
\* blocks while fewer than n bytes have come and the stream is open.
ReadFull(s, end, pos, n) ==
    LET avail == Len(s) - pos
    IN  IF n <= avail
        THEN [n |-> n, err |-> "nil", blocked |-> FALSE]
        ELSE IF end = "open"
        THEN [n |-> avail, err |-> "nil", blocked |-> TRUE]
        ELSE IF end = "eof"
        THEN [n |-> avail,
              err |-> IF avail = 0 THEN EOF ELSE ErrUnexpectedEOF,
              blocked |-> FALSE]
        ELSE [n |-> avail, err |-> EndError(end), blocked |-> FALSE]

\* A mutant of TooLong: the limit is off by one.
TooLong_OffByOne(filenameLen) == filenameLen > maxFilenameLen + 1

\* The check of the declared name length (line 202).
TooLong(filenameLen) == filenameLen > maxFilenameLen

Decoded(fi, err, pos, blocked) ==
    [fi |-> fi, err |-> err, pos |-> pos, blocked |-> blocked]

\* receiveFileInfo on stream s read up to pos: the descriptor or the error,
\* and the position of the stream afterwards.
receiveFileInfo(s, end, pos) ==
    LET r1 == ReadFull(s, end, pos, 4)
        filenameLen == Uint32(SubSeq(s, pos + 1, pos + 4))
        p2 == pos + 4
        r2 == ReadFull(s, end, p2, filenameLen)
        filename == SubSeq(s, p2 + 1, p2 + filenameLen)
        p3 == p2 + filenameLen
        r3 == ReadFull(s, end, p3, 8)
        fileSize == Int64(SubSeq(s, p3 + 1, p3 + 8))
        p4 == p3 + 8
        r4 == ReadFull(s, end, p4, 1)
        isDirectory == s[p4 + 1] = 1
    IN  IF r1.blocked \/ r1.err # "nil"
        THEN Decoded(NoInfo, r1.err, pos + r1.n, r1.blocked)
        ELSE IF TooLong(filenameLen)
        THEN Decoded(NoInfo, ErrTooLong, p2, FALSE)
        ELSE IF r2.blocked \/ r2.err # "nil"
        THEN Decoded(NoInfo, r2.err, p2 + r2.n, r2.blocked)
        ELSE IF r3.blocked \/ r3.err # "nil"
        THEN Decoded(NoInfo, r3.err, p3 + r3.n, r3.blocked)
        ELSE IF r4.blocked \/ r4.err # "nil"
        THEN Decoded(NoInfo, r4.err, p4 + r4.n, r4.blocked)
        ELSE Decoded(FileInfo(filename, fileSize, isDirectory), "nil", p4 + 1, FALSE)

(***************************************************************************)
(* Paths (path/filepath on a host whose separator is '/')                  *)
(***************************************************************************)
DotDot == <<DOT, DOT>>

\* strings.Split(name, "/"): the pieces between the separators, one more
\* than there are separators.
Split(b) ==
    LET cuts == {i \in 1..Len(b) : b[i] = SLASH}
        n == Cardinality(cuts)
        cut(k) == IF k = 0 THEN 0
                  ELSE IF k = n + 1 THEN Len(b) + 1
                  ELSE CHOOSE i \in cuts : Cardinality({j \in cuts : j < i}) = k - 1
    IN  [k \in 1..(n + 1) |-> SubSeq(b, cut(k - 1) + 1, cut(k) - 1)]

\* filepath.ToSlash of a relative path: its components joined by '/'.
RECURSIVE ToSlash(_)
ToSlash(p) ==
    IF p = <<>> THEN <<DOT>>
    ELSE IF Len(p) = 1 THEN p[1]
    ELSE p[1] \o <<SLASH>> \o ToSlash(Tail(p))

\* filepath.Clean of a relative path given by its components: empty and "."
\* components go, ".." removes the component before it or stays in front.
RECURSIVE CleanInto(_, _)
CleanInto(out, comps) ==
    IF comps = <<>> THEN out
    ELSE LET c == Head(comps)
         IN  IF c = <<>> \/ c = <<DOT>> THEN CleanInto(out, Tail(comps))
             ELSE IF c = DotDot
             THEN IF out # <<>> /\ Last(out) # DotDot
                  THEN CleanInto(Front(out), Tail(comps))
                  ELSE CleanInto(Append(out, DotDot), Tail(comps))
             ELSE CleanInto(Append(out, c), Tail(comps))

\* filepath.Join(dir, filepath.FromSlash(name)) for a clean relative dir.
Join(dir, name) == CleanInto(<<>>, dir \o Split(name))

\* filepath.Dir of a clean relative path.
Dir(p) == IF p = <<>> THEN <<>> ELSE Front(p)

(***************************************************************************)
(* The receiver's file system: the set of directories and the regular      *)
(* files with their content, by path relative to the working directory.    *)
(***************************************************************************)
Prefixes(p) == {SubSeq(p, 1, k) : k \in 1..Len(p)}

\* The working directory and its ancestors exist.
IsDirPath(ds, p) == p \in ds \/ \A i \in 1..Len(p) : p[i] = DotDot

\* os.MkdirAll(p) fails when p or one of its ancestors is a regular file.
MkdirAllFails(fl, p) == \E q \in Prefixes(p) : q \in DOMAIN fl

MkdirAll(ds, p) == ds \cup Prefixes(p)

\* os.Create(p) fails when p is a directory or its parent is none.
CreateFails(ds, p) == IsDirPath(ds, p) \/ ~IsDirPath(ds, Dir(p))

\* A mutant of Create: an existing file keeps its content (no O_TRUNC).
Create_NoTruncate(fl, p) ==
    [q \in DOMAIN fl \cup {p} |-> IF q = p /\ q \notin DOMAIN fl THEN <<>> ELSE fl[q]]

\* os.Create(p): the file exists and is empty.
Create(fl, p) == [q \in DOMAIN fl \cup {p} |-> IF q = p THEN <<>> ELSE fl[q]]

Max(a, b) == IF a > b THEN a ELSE b

\* file.Write(data) at offset off of a file holding content: a gap between
\* the end of the file and the offset reads as zeros.
WriteAt(content, off, data) ==
    [i \in 1..Max(Len(content), off + Len(data)) |->
        IF i > off /\ i <= off + Len(data) THEN data[i - off]
        ELSE IF i <= Len(content) THEN content[i] ELSE 0]

(***************************************************************************)
(* Progress tracking.  The global variable progressWriter of a process is  *)
(* the only lasting reference to a ProgressWriter, so the state holds, per *)
(* process, the object it points to; an object it no longer points to is   *)
(* garbage.  Besides the code's fields a counter records the task that     *)
(* made it, the task that last stored into current, and what has been      *)
(* printed: whether anything was (seen), the last value printed (obs) and  *)
(* whether the printed values never went down (mono), and whether         *)
(* Finalize has run (final).                                               *)
(***************************************************************************)
NewProgressWriter(total, who) ==
    [total |-> total, current |-> 0, lastPrint |-> 0,
     owner |-> who, writer |-> who, seen |-> FALSE, obs |-> 0, mono |-> TRUE,
     final |-> FALSE]

\* The nil pointer.
NilProgress == NewProgressWriter(0, <<"none", 0>>)

Observe(pw, v) ==
    [pw EXCEPT !.seen = TRUE, !.obs = v, !.mono = @ /\ (pw.seen => v >= pw.obs)]

\* pw.printProgress(); tick says that elapsed.Milliseconds()%100 is 0.
printProgress(pw, tick) ==
    IF pw.current - pw.lastPrint < printStep /\ ~tick
    THEN pw
    ELSE LET cur == IF pw.total > 0 /\ pw.current >= pw.total
                    THEN pw.total ELSE pw.current
         IN  [Observe(pw, cur) EXCEPT !.current = cur, !.lastPrint = cur]

\* pw.Finalize().
Finalize(pw) ==
    LET cur == IF pw.total > 0 THEN pw.total ELSE pw.current
    IN  [Observe(pw, cur) EXCEPT !.current = cur, !.final = TRUE]

(***************************************************************************)
(* State                                                                   *)
(***************************************************************************)
VARIABLES
    wire,           \* per connection: the bytes the stream delivers
    wend,           \* per connection: "open", or how the stream has ended
    rpos,           \* per connection: number of bytes the receiver has read
    rpc,            \* per connection: where its receiveFileRaw stands
    rret,           \* per connection: what receiveFileRaw returned
    rfi,            \* per connection: fi, the descriptor being handled
    rfile,          \* per connection: file, the output file handle
    totalReceived,  \* per connection: totalReceived
    rbuf,           \* per connection: buffer[:n] and err of the last read
    dirs,           \* receiver's file system: the directories
    files,          \* receiver's file system: the files and their content
    frames,         \* per connection: stream offsets where a decode began
    made,           \* per connection: the entries created, in order
    scen,           \* per connection: the items the peer set out to send
    progressWriter, \* per process: the object of the global progressWriter
    cin,            \* codec: the descriptor to encode
    cout,           \* codec: what receiveFileInfo returned
    srcFiles,       \* sender's file system: the files and their content
    stdin,          \* sender: the bytes on its standard input
    items,          \* sender: uniqueItems, the paths to send
    spc,            \* sender: where sendFilesRaw / sendStdinRaw stands
    sidx,           \* sender: index of the item being sent
    walk,           \* sender: entries filepath.Walk has still to visit
    inDir,          \* sender: sendSingleFile was called by the walk
    scur,           \* sender: the locals of sendSingleFile / sendStdinRaw
    sret,           \* sender: what sendFilesRaw / sendStdinRaw returned
    changes         \* number of changes made to source files so far

streamVars == <<wire, wend>>
recvVars == <<rpos, rpc, rret, rfi, rfile, totalReceived, rbuf, frames, made>>
fsVars == <<dirs, files>>
progVars == <<progressWriter>>
codecVars == <<cin, cout>>
sendVars == <<srcFiles, stdin, items, spc, sidx, walk, inDir, scur, sret, changes>>
vars == <<streamVars, recvVars, fsVars, progVars, codecVars, sendVars, scen>>

NoFile == [open |-> FALSE, path |-> <<>>, off |-> 0]

NoBuf == [data |-> <<>>, err |-> "nil"]

\* A mutant of Close: the handle stays open.
Close_Leak(f) == f

\* file.Close().
Close(f) == [f EXCEPT !.open = FALSE]

NoResult == Decoded(NoInfo, "none", 0, FALSE)

\* Task names: the receiver task of connection c, and the sending process.
RecvTask(c) == <<"recv", c>>

SendTask == <<"send", 0>>

(***************************************************************************)
(* receiveFileRaw, one action per step of its loop                         *)
(***************************************************************************)
\* A mutant of NormalTermination: a clean io.EOF is not recognised.
NormalTermination_NoEOF(err) ==
    \/ Contains(err, "closed")
    \/ Contains(err, "reset")
    \/ Contains(err, "unexpected EOF")

\* Lines 395-397: the errors of receiveFileInfo taken as a normal end.
NormalTermination(err) ==
    \/ err = EOF
    \/ Contains(err, "closed")
    \/ Contains(err, "reset")
    \/ Contains(err, "unexpected EOF")

\* fmt.Errorf("failed to receive file info: %w", err).
Wrapped(err) ==
    CASE err = ErrTooLong -> "failed to receive file info: filename too long"
      [] err = ErrTimeout -> "failed to receive file info: read: connection timed out"
      [] OTHER -> "failed to receive file info"

Return(c, err) ==
    /\ rpc' = [rpc EXCEPT ![c] = "Closed"]
    /\ rret' = [rret EXCEPT ![c] = err]

\* receiveFileInfo and the handling of its error (lines 392-401).
RecvInfo(c) ==
    LET d == receiveFileInfo(wire[c], wend[c], rpos[c])
    IN  /\ rpc[c] = "AwaitingFrame"
        /\ ~d.blocked
        /\ frames' = [frames EXCEPT ![c] = Append(@, rpos[c])]
        /\ rpos' = [rpos EXCEPT ![c] = d.pos]
        /\ IF d.err # "nil"
           THEN /\ Return(c, IF NormalTermination(d.err) THEN "nil"
                             ELSE Wrapped(d.err))
                /\ UNCHANGED rfi
           ELSE /\ rfi' = [rfi EXCEPT ![c] = d.fi]
                /\ rpc' = [rpc EXCEPT ![c] = "Place"]
                /\ UNCHANGED rret
        /\ UNCHANGED <<streamVars, rfile, totalReceived, rbuf, made, fsVars,
                       progVars, codecVars, sendVars,
                   scen>>

fullPath(c) == Join(receiveDir, rfi[c].Filename)

\* A directory descriptor (lines 404-420).
RecvDirectory(c) ==
    /\ rpc[c] = "Place"
    /\ rfi[c].IsDirectory
    /\ IF MkdirAllFails(files, receiveDir)
       THEN /\ Return(c, "cannot create directory")
            /\ UNCHANGED <<dirs, made>>
       ELSE IF MkdirAllFails(files, fullPath(c))
       THEN /\ Return(c, "cannot create directory")
            /\ dirs' = MkdirAll(dirs, receiveDir)
            /\ UNCHANGED made
       ELSE /\ dirs' = MkdirAll(MkdirAll(dirs, receiveDir), fullPath(c))
            /\ made' = [made EXCEPT ![c] = Append(@, <<"dir", fullPath(c)>>)]
            /\ rpc' = [rpc EXCEPT ![c] = "AwaitingFrame"]
            /\ UNCHANGED rret
    /\ UNCHANGED <<streamVars, rpos, rfi, rfile, totalReceived, rbuf, frames,
                   files, progVars, codecVars, sendVars,
                   scen>>

\* A file descriptor up to os.Create (lines 404-436).
RecvCreate(c) ==
    LET parentDir == Dir(fullPath(c))
        needParent == parentDir # <<>> /\ parentDir # receiveDir
        ds1 == MkdirAll(dirs, receiveDir)
        ds2 == IF needParent THEN MkdirAll(ds1, parentDir) ELSE ds1
    IN  /\ rpc[c] = "Place"
        /\ ~rfi[c].IsDirectory
        /\ IF MkdirAllFails(files, receiveDir)
           THEN /\ Return(c, "cannot create directory")
                /\ UNCHANGED <<fsVars, made, rfile>>
           ELSE IF needParent /\ MkdirAllFails(files, parentDir)
           THEN /\ Return(c, "cannot create parent directory")
                /\ dirs' = ds1
                /\ UNCHANGED <<files, made, rfile>>
           ELSE IF CreateFails(ds2, fullPath(c))
           THEN /\ Return(c, "cannot create file")
                /\ dirs' = ds2
                /\ UNCHANGED <<files, made, rfile>>
           ELSE /\ dirs' = ds2
                /\ files' = Create(files, fullPath(c))
                /\ rfile' = [rfile EXCEPT ![c] =
                                [open |-> TRUE, path |-> fullPath(c), off |-> 0]]
                /\ made' = [made EXCEPT ![c] = Append(@, <<"file", fullPath(c)>>)]
                /\ rpc' = [rpc EXCEPT ![c] = "NewProgress"]
                /\ UNCHANGED rret
        /\ UNCHANGED <<streamVars, rpos, rfi, totalReceived, rbuf, frames,
                       progVars, codecVars, sendVars,
                   scen>>

\* progressWriter = NewProgressWriter(...); totalReceived := 0 (lines 439-443).
RecvNewProgress(c) ==
    /\ rpc[c] = "NewProgress"
    /\ progressWriter' = [progressWriter EXCEPT !["recv"] =
                             NewProgressWriter(rfi[c].FileSize, RecvTask(c))]
    /\ totalReceived' = [totalReceived EXCEPT ![c] = 0]
    /\ rpc' = [rpc EXCEPT ![c] = "ReadChunk"]
    /\ UNCHANGED <<streamVars, rpos, rret, rfi, rfile, rbuf, frames, made,
                   fsVars, codecVars, sendVars,
                   scen>>

\* A mutant of ReadSize: every read asks for a whole chunk.
ReadSize_WholeChunk(remaining) == chunkSize

\* readSize of lines 447-451: a chunk, or what remains of the item.
ReadSize(remaining) == IF remaining < chunkSize THEN remaining ELSE chunkSize

\* The loop test and io.ReadFull(conn, buffer[:readSize]) (lines 445-458).
RecvReadChunk(c) ==
    LET remaining == rfi[c].FileSize - totalReceived[c]
        readSize == ReadSize(remaining)
        r == ReadFull(wire[c], wend[c], rpos[c], readSize)
    IN  /\ rpc[c] = "ReadChunk"
        /\ IF ~(totalReceived[c] < rfi[c].FileSize)
           THEN /\ rpc' = [rpc EXCEPT ![c] = "CloseFile"]
                /\ UNCHANGED <<rpos, rret, rfile, rbuf>>
           ELSE /\ ~r.blocked
                /\ rpos' = [rpos EXCEPT ![c] = @ + r.n]
                /\ IF r.err # "nil" /\ r.err # EOF /\ r.err # ErrUnexpectedEOF
                   THEN /\ rfile' = [rfile EXCEPT ![c] = Close(@)]
                        /\ Return(c, r.err)
                        /\ UNCHANGED rbuf
                   ELSE /\ rbuf' = [rbuf EXCEPT ![c] =
                               [data |-> SubSeq(wire[c], rpos[c] + 1, rpos[c] + r.n),
                                err |-> r.err]]
                        /\ rpc' = [rpc EXCEPT ![c] = "WriteChunk"]
                        /\ UNCHANGED <<rret, rfile>>
        /\ UNCHANGED <<streamVars, rfi, totalReceived, frames, made, fsVars,
                       progVars, codecVars, sendVars,
                   scen>>

\* file.Write(buffer[:n]); totalReceived += n (lines 461-466).
RecvWriteChunk(c) ==
    /\ rpc[c] = "WriteChunk"
    /\ files' = [files EXCEPT ![rfile[c].path] =
                    WriteAt(@, rfile[c].off, rbuf[c].data)]
    /\ rfile' = [rfile EXCEPT ![c].off = @ + Len(rbuf[c].data)]
    /\ totalReceived' = [totalReceived EXCEPT ![c] = @ + Len(rbuf[c].data)]
    /\ rpc' = [rpc EXCEPT ![c] = "SetCurrent"]
    /\ UNCHANGED <<streamVars, rpos, rret, rfi, rbuf, frames, made, dirs,
                   progVars, codecVars, sendVars,
                   scen>>

\* progressWriter.current = v, by task `who', through the global of `proc'.
StoreCurrent(proc, who, v) ==
    progressWriter' = [progressWriter EXCEPT ![proc] =
                          [@ EXCEPT !.current = v, !.writer = who]]

\* progressWriter.printProgress() through the global of `proc'.
CallPrintProgress(proc) ==
    \E tick \in BOOLEAN :
        progressWriter' = [progressWriter EXCEPT ![proc] = printProgress(@, tick)]

\* progressWriter.current = totalReceived (line 467).
RecvSetCurrent(c) ==
    /\ rpc[c] = "SetCurrent"
    /\ StoreCurrent("recv", RecvTask(c), totalReceived[c])
    /\ rpc' = [rpc EXCEPT ![c] = "PrintProgress"]
    /\ UNCHANGED <<streamVars, rpos, rret, rfi, rfile, totalReceived, rbuf,
                   frames, made, fsVars, codecVars, sendVars,
                   scen>>

\* progressWriter.printProgress() and the loop's exit test (lines 468-472).
RecvPrintProgress(c) ==
    /\ rpc[c] = "PrintProgress"
    /\ CallPrintProgress("recv")
    /\ rpc' = [rpc EXCEPT ![c] =
                  IF totalReceived[c] >= rfi[c].FileSize THEN "CloseFile"
                  ELSE "ReadChunk"]
    /\ UNCHANGED <<streamVars, rpos, rret, rfi, rfile, totalReceived, rbuf,
                   frames, made, fsVars, codecVars, sendVars,
                   scen>>

\* file.Close() after the loop (line 476).
RecvCloseFile(c) ==
    /\ rpc[c] = "CloseFile"
    /\ rfile' = [rfile EXCEPT ![c] = Close(@)]
    /\ rpc' = [rpc EXCEPT ![c] = "SetFinal"]
    /\ UNCHANGED <<streamVars, rpos, rret, rfi, totalReceived, rbuf, frames,
                   made, fsVars, progVars, codecVars, sendVars,
                   scen>>

\* progressWriter.current = fi.FileSize (line 479).
RecvSetFinal(c) ==
    /\ rpc[c] = "SetFinal"
    /\ StoreCurrent("recv", RecvTask(c), rfi[c].FileSize)
    /\ rpc' = [rpc EXCEPT ![c] = "PrintFinal"]
    /\ UNCHANGED <<streamVars, rpos, rret, rfi, rfile, totalReceived, rbuf,
                   frames, made, fsVars, codecVars, sendVars,
                   scen>>

\* progressWriter.printProgress() (line 480).
RecvPrintFinal(c) ==
    /\ rpc[c] = "PrintFinal"
    /\ CallPrintProgress("recv")
    /\ rpc' = [rpc EXCEPT ![c] = "Finalize"]
    /\ UNCHANGED <<streamVars, rpos, rret, rfi, rfile, totalReceived, rbuf,
                   frames, made, fsVars, codecVars, sendVars,
                   scen>>

\* progressWriter.Finalize(), and back to the head of the loop (line 481).
RecvFinalize(c) ==
    /\ rpc[c] = "Finalize"
    /\ progressWriter' = [progressWriter EXCEPT !["recv"] = Finalize(@)]
    /\ rpc' = [rpc EXCEPT ![c] = "AwaitingFrame"]
    /\ UNCHANGED <<streamVars, rpos, rret, rfi, rfile, totalReceived, rbuf,
                   frames, made, fsVars, codecVars, sendVars,
                   scen>>

receiveFileRaw(c) ==
    \/ RecvInfo(c)
    \/ RecvDirectory(c)
    \/ RecvCreate(c)
    \/ RecvNewProgress(c)
    \/ RecvReadChunk(c)
    \/ RecvWriteChunk(c)
    \/ RecvSetCurrent(c)
    \/ RecvPrintProgress(c)
    \/ RecvCloseFile(c)
    \/ RecvSetFinal(c)
    \/ RecvPrintFinal(c)
    \/ RecvFinalize(c)

(***************************************************************************)
(* Streams a peer may deliver                                              *)
(***************************************************************************)
NameA == <<97>>
NameD == <<100>>
NameDA == <<100, SLASH, 97>>

Item(name, isDir, content) == [name |-> name, isDir |-> isDir, content |-> content]

\* The bytes of one item on the stream: its frame, then its content.
ItemBytes(it) ==
    sendFileInfo(FileInfo(it.name, Len(it.content), it.isDir)) \o it.content

RECURSIVE ItemsBytes(_)
ItemsBytes(its) ==
    IF its = <<>> THEN <<>> ELSE ItemBytes(Head(its)) \o ItemsBytes(Tail(its))

GenItems ==
    { Item(NameD, TRUE, <<>>),
      Item(NameA, FALSE, <<>>),
      Item(NameA, FALSE, <<1, 2, 3>>),
      Item(NameDA, FALSE, <<7>>),
      Item(NameD, FALSE, <<5, 6>>) }

\* What may follow the items: nothing, a frame declaring a name of 256
\* bytes (with and without bytes after it), a frame declaring 2^31 bytes.
GenTails ==
    { <<>>, <<0, 0, 1, 0>>, <<0, 0, 1, 0, 97, 98>>, <<128, 0, 0, 0, 97>> }

GenEnds == {"eof", "reset", "timeout"}

NoScen == [items |-> <<>>, whole |-> FALSE]

(***************************************************************************)
(* SpecRecv: one connection; the peer's stream is a list of items,         *)
(* possibly followed by a bad frame, cut anywhere, and ended in any way.   *)
(***************************************************************************)
InitIdle ==
    /\ dirs = {receiveDir}
    /\ files = <<>>
    /\ progressWriter = [p \in {"recv", "send"} |-> NilProgress]
    /\ rpos = [c \in Conns |-> 0]
    /\ rret = [c \in Conns |-> "running"]
    /\ rfi = [c \in Conns |-> NoInfo]
    /\ rfile = [c \in Conns |-> NoFile]
    /\ totalReceived = [c \in Conns |-> 0]
    /\ rbuf = [c \in Conns |-> NoBuf]
    /\ frames = [c \in Conns |-> <<>>]
    /\ made = [c \in Conns |-> <<>>]

NoCur == [path |-> <<>>, name |-> <<>>, size |-> 0, off |-> 0, totalSent |-> 0,
          buf |-> <<>>]

\* A mutant of Result: the error does not say which item failed.
Result_NoItem(kind, item, cause) == [kind |-> kind, item |-> 0, cause |-> cause]

\* What sendFilesRaw / sendStdinRaw returns: nil, or an error that names the
\* item of the list that failed (0: none) and wraps a cause.
Result(kind, item, cause) == [kind |-> kind, item |-> item, cause |-> cause]

\* No sending process.
InitNoSend ==
    /\ srcFiles = <<>>
    /\ stdin = <<>>
    /\ items = <<>>
    /\ spc = "NoSend"
    /\ sidx = 0
    /\ walk = <<>>
    /\ inDir = FALSE
    /\ scur = NoCur
    /\ sret = Result("running", 0, "")
    /\ changes = 0

InitRecv ==
    /\ InitIdle
    /\ InitNoSend
    /\ cin = NoInfo
    /\ cout = NoResult
    /\ rpc = [c \in Conns |-> IF c = 1 THEN "AwaitingFrame" ELSE "NoConn"]
    /\ \E its \in SeqsUpTo(GenItems, MaxItems), tail \in GenTails, end \in GenEnds :
         LET full == ItemsBytes(its) \o tail
         IN  \E cut \in 0..Len(full) :
               /\ wire = [c \in Conns |-> IF c = 1 THEN Take(full, cut) ELSE <<>>]
               /\ wend = [c \in Conns |-> IF c = 1 THEN end ELSE "eof"]
               /\ scen = [c \in Conns |->
                            IF c = 1
                            THEN [items |-> its,
                                  whole |-> tail = <<>> /\ cut = Len(full) /\ end = "eof"]
                            ELSE NoScen]

NextRecv == \E c \in Conns : receiveFileRaw(c)

SpecRecv == InitRecv /\ [][NextRecv]_vars

\* The goroutine running receiveFileRaw is scheduled as long as it can step.
SpecRecvFair == SpecRecv /\ \A c \in Conns : WF_vars(receiveFileRaw(c))

(***************************************************************************)
(* Claims about receiveFileRaw on one connection                           *)
(***************************************************************************)
Returned(c) == rpc[c] = "Closed"

Failed(c) == Returned(c) /\ rret[c] # "nil"

\* C1: when a read of the content loop meets the end of the stream before
\* the declared size has come, receiveFileRaw has returned an error and the
\* file on disk is shorter than the declared size.
C1_TruncatedContentFails ==
    \A c \in Conns :
        rbuf[c].err \in {EOF, ErrUnexpectedEOF} =>
            /\ Failed(c)
            /\ Len(files[rfile[c].path]) < rfi[c].FileSize

\* C2: on a stream that has ended, receiveFileRaw eventually returns.
C2_ReceiverReturns ==
    <>(\A c \in Conns : rpc[c] \in {"NoConn", "Closed"})

\* C3: receiveFileRaw returns nil only when no byte of the frame it was
\* decoding had been read.
C3_NilOnlyAtFrameBoundary ==
    \A c \in Conns :
        (Returned(c) /\ rret[c] = "nil") => rpos[c] = Last(frames[c])

\* The name length declared by the frame that begins at offset off.
DeclaredLen(c, off) == Uint32(SubSeq(wire[c], off + 1, off + 4))

\* C8: once the receiver has decoded a frame declaring a name of more than
\* 255 bytes, it has returned the error "filename too long", has read the 4
\* bytes of the length and nothing after them, has made nothing for the frame
\* and has decoded no later frame.
C8_TooLongRejected ==
    \A c \in Conns : \A i \in 1..Len(frames[c]) :
        LET off == frames[c][i]
        IN  (off + 4 <= Len(wire[c]) /\ DeclaredLen(c, off) > 255) =>
                /\ i = Len(frames[c])
                /\ Returned(c)
                /\ rret[c] = "failed to receive file info: filename too long"
                /\ rpos[c] = off + 4
                /\ Len(made[c]) = i - 1
                /\ ~rfile[c].open

\* A frame declaring 256 bytes, with bytes after it, was rejected after an
\* item had been received.
C8_Witness ==
    \E c \in Conns :
        /\ Len(frames[c]) >= 2
        /\ Last(frames[c]) + 4 < Len(wire[c])
        /\ DeclaredLen(c, Last(frames[c])) = 256
        /\ Failed(c)

\* What the receiver makes of a list of items: one entry per item.
Expected(its) ==
    [i \in 1..Len(its) |->
        << IF its[i].isDir THEN "dir" ELSE "file", Join(receiveDir, its[i].name) >>]

\* C6 as claimed: after any list of items followed by the end of the stream
\* the receiver has made exactly their entries, in order, and returned nil.
C6_AnyItemsReceived ==
    \A c \in Conns :
        (scen[c].whole /\ Returned(c)) =>
            /\ rret[c] = "nil"
            /\ made[c] = Expected(scen[c].items)

\* No file of the list lies where a directory is, and no other entry of the
\* list lies at or below a file of the list (the same file again is allowed).
Compatible(its) ==
    LET path(i) == Join(receiveDir, its[i].name)
    IN  \A i \in 1..Len(its) :
            ~its[i].isDir =>
                /\ ~IsDirPath({receiveDir}, path(i))
                /\ \A j \in 1..Len(its) :
                       (j # i /\ IsPrefix(path(i), path(j))) =>
                           (~its[j].isDir /\ path(j) = path(i))

\* C6 amended: the same for lists whose names do not collide in kind; the
\* content of every file of the list is on disk when the receiver returns.
C6_CompatibleItemsReceived ==
    \A c \in Conns :
        (scen[c].whole /\ Compatible(scen[c].items) /\ Returned(c)) =>
            /\ rret[c] = "nil"
            /\ made[c] = Expected(scen[c].items)
            /\ rpos[c] = Len(wire[c])
            /\ \A i \in 1..Len(scen[c].items) :
                   LET it == scen[c].items[i]
                       p == Join(receiveDir, it.name)
                   IN  IF it.isDir THEN p \in dirs
                       ELSE /\ p \in DOMAIN files
                            /\ (\A j \in (i + 1)..Len(scen[c].items) :
                                    Join(receiveDir, scen[c].items[j].name) # p)
                                   => files[p] = it.content

\* A directory and then a file of 0 bytes were received and nil returned.
C6_Witness ==
    \E c \in Conns :
        /\ scen[c].whole
        /\ Len(scen[c].items) >= 2
        /\ \E i \in 1..Len(scen[c].items) :
               ~scen[c].items[i].isDir /\ scen[c].items[i].content = <<>>
        /\ \E i \in 1..Len(scen[c].items) : scen[c].items[i].isDir
        /\ Returned(c)
        /\ rret[c] = "nil"
        /\ Len(made[c]) = Len(scen[c].items)

(***************************************************************************)
(* SpecCodec: sendFileInfo writes one descriptor to a stream, any bytes    *)
(* may follow it, and receiveFileInfo decodes from the same stream.        *)
(***************************************************************************)
Name255 == [i \in 1..maxFilenameLen |-> 97 + (i % 3)]

DescSet ==
    { FileInfo(n, sz, d) :
        n \in {<<>>, NameA, NameDA, Name255},
        sz \in {0, 1, 255, 256, 65536, 16777217, MaxInt},
        d \in BOOLEAN }

InitCodec ==
    /\ InitIdle
    /\ InitNoSend
    /\ cin \in DescSet
    /\ cout = NoResult
    /\ rpc = [c \in Conns |-> "NoConn"]
    /\ wire = [c \in Conns |-> <<>>]
    /\ wend = [c \in Conns |-> "open"]
    /\ scen = [c \in Conns |-> NoScen]

\* sendFileInfo(conn, cin); the peer may go on writing.
CodecSend ==
    /\ wire[1] = <<>>
    /\ \E tail \in {<<>>, <<9>>, <<0, 0, 0, 1>>} :
         wire' = [wire EXCEPT ![1] = sendFileInfo(cin) \o tail]
    /\ UNCHANGED <<wend, recvVars, fsVars, progVars, codecVars, sendVars, scen>>

\* receiveFileInfo(conn) at the start of the stream.
CodecReceive ==
    /\ wire[1] # <<>>
    /\ cout = NoResult
    /\ cout' = receiveFileInfo(wire[1], wend[1], 0)
    /\ UNCHANGED <<streamVars, recvVars, fsVars, progVars, cin, sendVars, scen>>

NextCodec == CodecSend \/ CodecReceive

SpecCodec == InitCodec /\ [][NextCodec]_vars

\* C7: what receiveFileInfo decodes from the bytes of sendFileInfo is the
\* descriptor that was encoded, without error, and the stream stands right
\* after the frame: 4 + len(name) + 8 + 1 bytes from its start.
C7_RoundTrip ==
    cout # NoResult =>
        /\ cout.err = "nil"
        /\ ~cout.blocked
        /\ cout.fi = cin
        /\ cout.pos = Len(cin.Filename) + 13

\* A directory descriptor with a name of 255 bytes and the largest size of
\* the model was decoded from a stream that goes on after the frame.
C7_Witness ==
    /\ cout # NoResult
    /\ Len(cin.Filename) = 255
    /\ cin.FileSize = MaxInt
    /\ cin.IsDirectory
    /\ Len(wire[1]) > cout.pos

(***************************************************************************)
(* SpecConc: startServerRaw with two connections.  Each peer sends one     *)
(* file under the same name and closes; the peer of connection c sends     *)
(* bytes of value c, and the peer of connection 1 may send the directory d *)
(* first.  The two receiver goroutines interleave step by step.            *)
(***************************************************************************)
ConcLengths == {0, 1, chunkSize + 1, 2 * chunkSize}

ConcItem(c, n) == Item(NameA, FALSE, [i \in 1..n |-> c])

InitConc ==
    /\ InitIdle
    /\ InitNoSend
    /\ cin = NoInfo
    /\ cout = NoResult
    /\ rpc = [c \in Conns |-> "Pending"]
    /\ wend = [c \in Conns |-> "eof"]
    /\ \E len \in [Conns -> ConcLengths], first \in BOOLEAN :
         /\ scen = [c \in Conns |->
                      [items |-> (IF c = 1 /\ first
                                  THEN <<Item(NameD, TRUE, <<>>)>> ELSE <<>>)
                                 \o <<ConcItem(c, len[c])>>,
                       whole |-> TRUE]]
         /\ wire = [c \in Conns |-> ItemsBytes(scen[c].items)]

\* listener.Accept() and go func(c net.Conn) (lines 505-516).
Accept(c) ==
    /\ rpc[c] = "Pending"
    /\ rpc' = [rpc EXCEPT ![c] = "AwaitingFrame"]
    /\ UNCHANGED <<streamVars, rpos, rret, rfi, rfile, totalReceived, rbuf,
                   frames, made, fsVars, progVars, codecVars, sendVars,
                   scen>>

startServerRaw == \E c \in Conns : Accept(c) \/ receiveFileRaw(c)

NextConc == startServerRaw

SpecConc == InitConc /\ [][NextConc]_vars

\* C4: when both transfers of the same name are over, the file holds the
\* complete content of one of them.
C4_LastWriterWins ==
    (\A c \in Conns : Returned(c)) =>
        \E c \in Conns :
            files[Join(receiveDir, NameA)] = Last(scen[c].items).content

\* The steps of receiveFileRaw between the creation of an item's counter and
\* its Finalize.
InFlight ==
    {"ReadChunk", "WriteChunk", "SetCurrent", "PrintProgress", "CloseFile",
     "SetFinal", "PrintFinal", "Finalize"}

\* C5: only the task that made a counter stores into its current, and while
\* a connection's item is in flight the process's progressWriter is the
\* counter made for that item.
C5_CountersNotShared ==
    /\ progressWriter["recv"].writer = progressWriter["recv"].owner
    /\ \A c \in Conns :
           rpc[c] \in InFlight => progressWriter["recv"].owner = RecvTask(c)

(***************************************************************************)
(* The sender's file system.  The sender works in the directory /w, which  *)
(* holds the file f and the directory d; d holds the files a and g and the *)
(* directory e, which holds the file b.  The content of files may change.  *)
(* The tree is given by its files.                                         *)
(***************************************************************************)
CompA == <<97>>
CompB == <<98>>
CompD == <<100>>
CompE == <<101>>
CompF == <<102>>
CompG == <<103>>
CompL == <<108>>
CompN == <<110>>
CompW == <<119>>
CompX == <<120>>

\* The directories of the sender's tree: none of them is empty.
SrcDirs == UNION { Prefixes(Front(q)) : q \in DOMAIN srcFiles }

SrcFiles(ca, cf) ==
    [q \in { <<CompD, CompA>>, <<CompD, CompE, CompB>>, <<CompD, CompG>>, <<CompF>> } |->
        CASE q = <<CompD, CompA>> -> ca
          [] q = <<CompD, CompE, CompB>> -> <<4>>
          [] q = <<CompD, CompG>> -> <<5, 6>>
          [] q = <<CompF>> -> cf]

\* A further directory l of the working directory: it holds a file whose
\* name is as long as a file name may be, and the directory n with a file.
LongFiles ==
    [q \in { <<CompL, Name255>>, <<CompL, CompN, CompB>> } |->
        IF q = <<CompL, Name255>> THEN <<9>> ELSE <<3>>]

\* os.Stat(p).IsDir() for a clean path p.
IsSrcDir(p) == p = <<>> \/ p \in SrcDirs

SrcExists(p) == IsSrcDir(p) \/ p \in DOMAIN srcFiles

\* filepath.Abs of a path relative to the working directory /w.
AbsPath(p) == <<CompW>> \o CleanInto(<<>>, p)

\* filepath.Rel(base, target) for target below base.
Rel(base, target) == Drop(target, Len(base))

\* Byte-wise order of names, as sort.Strings in filepath.Walk.
RECURSIVE NameLess(_, _)
NameLess(a, b) ==
    IF a = <<>> THEN b # <<>>
    ELSE IF b = <<>> THEN FALSE
    ELSE IF Head(a) # Head(b) THEN Head(a) < Head(b)
    ELSE NameLess(Tail(a), Tail(b))

RECURSIVE SortPaths(_)
SortPaths(S) ==
    IF S = {} THEN <<>>
    ELSE LET m == CHOOSE x \in S : \A y \in S \ {x} : NameLess(Last(x), Last(y))
         IN  <<m>> \o SortPaths(S \ {m})

Children(p) ==
    {q \in SrcDirs \cup DOMAIN srcFiles : Len(q) = Len(p) + 1 /\ Front(q) = p}

\* The paths filepath.Walk visits below directory p, in its order: the
\* entries of a directory by name, a directory before what it holds.
RECURSIVE WalkFrom(_)
WalkFrom(p) ==
    LET kids == SortPaths(Children(p))
    IN  Flatten([i \in 1..Len(kids) |->
                    <<kids[i]>> \o (IF kids[i] \in SrcDirs THEN WalkFrom(kids[i])
                                    ELSE <<>>)])

\* A mutant of FullRelPath: the directory's base name is not prepended.
FullRelPath_NoBase(dirPath, path) ==
    ToSlash(Rel(AbsPath(dirPath), AbsPath(path)))

\* The name under which the walk sends the entry at path (lines 329-346).
FullRelPath(dirPath, path) ==
    LET absDirPath == AbsPath(dirPath)
        relPath == Rel(absDirPath, AbsPath(path))
        baseName == Last(absDirPath)
    IN  ToSlash(CleanInto(<<>>, <<baseName>> \o relPath))

(***************************************************************************)
(* The sending process: sendFilesRaw or sendStdinRaw                       *)
(***************************************************************************)
\* conn.Write fails once the connection is broken, and may fail once the
\* receiver has closed its end.
WriteOutcomes ==
    {ok \in BOOLEAN :
        /\ ok => wend[1] # "reset"
        /\ ~ok => (wend[1] = "reset" \/ rpc[1] = "Closed")}

\* A mutant of ConnWrite: the last byte of a buffer of two or more bytes is
\* not written.
ConnWrite_Short(bytes, ok) ==
    wire' = [wire EXCEPT ![1] = IF ~ok THEN @
                                ELSE IF Len(bytes) >= 2 THEN @ \o Front(bytes)
                                ELSE @ \o bytes]

\* conn.Write(bytes): all of the bytes are written, or none and an error.
ConnWrite(bytes, ok) ==
    wire' = [wire EXCEPT ![1] = IF ok THEN @ \o bytes ELSE @]

\* return from sendFilesRaw / sendStdinRaw; the deferred conn.Close().
SendReturn(res) ==
    /\ sret' = res
    /\ spc' = "Done"
    /\ wend' = [wend EXCEPT ![1] = IF @ = "open" THEN "eof" ELSE @]

\* The head of the loop over uniqueItems with sendFileRaw (lines 576-593,
\* 372-385) and the start of sendDirectoryRaw (lines 297-318).
SendNextItem ==
    /\ spc = "NextItem"
    /\ IF sidx > Len(items)
       THEN /\ SendReturn(Result("nil", 0, ""))
            /\ UNCHANGED <<wire, walk, inDir, scur>>
       ELSE LET filePath == items[sidx]
                p == CleanInto(<<>>, filePath)
            IN  IF ~SrcExists(p)
                THEN /\ SendReturn(Result("error", sidx, "stat: no such file or directory"))
                     /\ UNCHANGED <<wire, walk, inDir, scur>>
                ELSE IF IsSrcDir(p)
                THEN \E ok \in WriteOutcomes :
                       /\ ConnWrite(sendFileInfo(FileInfo(Last(filePath), 0, TRUE)), ok)
                       /\ IF ok
                          THEN /\ walk' = WalkFrom(p)
                               /\ inDir' = TRUE
                               /\ spc' = "Walk"
                               /\ UNCHANGED <<wend, sret>>
                          ELSE /\ SendReturn(Result("error", sidx,
                                      "failed to send root directory info"))
                               /\ UNCHANGED <<walk, inDir>>
                       /\ UNCHANGED scur
                ELSE /\ scur' = [NoCur EXCEPT !.path = p, !.name = Last(filePath)]
                     /\ inDir' = FALSE
                     /\ spc' = "FileOpen"
                     /\ UNCHANGED <<wire, wend, walk, sret>>
    /\ UNCHANGED <<rpos, rpc, rret, rfi, rfile, totalReceived, rbuf, frames, made,
                   fsVars, progVars, codecVars, srcFiles, stdin, items, sidx,
                   changes, scen>>

\* One call of the walk function (lines 318-368), or the end of the walk.
SendWalk ==
    /\ spc = "Walk"
    /\ IF walk = <<>>
       THEN /\ sidx' = sidx + 1
            /\ spc' = "NextItem"
            /\ UNCHANGED <<wire, wend, walk, scur, sret>>
       ELSE LET path == Head(walk)
                name == FullRelPath(items[sidx], path)
            IN  IF path \in SrcDirs
                THEN \E ok \in WriteOutcomes :
                       /\ ConnWrite(sendFileInfo(FileInfo(name, 0, TRUE)), ok)
                       /\ IF ok
                          THEN /\ walk' = Tail(walk)
                               /\ UNCHANGED <<wend, spc, sret>>
                          ELSE /\ SendReturn(Result("error", sidx,
                                      "failed to send subdirectory info"))
                               /\ UNCHANGED walk
                       /\ UNCHANGED <<sidx, scur>>
                ELSE /\ scur' = [NoCur EXCEPT !.path = path, !.name = name]
                     /\ walk' = Tail(walk)
                     /\ spc' = "FileOpen"
                     /\ UNCHANGED <<wire, wend, sidx, sret>>
    /\ UNCHANGED <<rpos, rpc, rret, rfi, rfile, totalReceived, rbuf, frames, made,
                   fsVars, progVars, codecVars, srcFiles, stdin, items, inDir,
                   changes, scen>>

\* sendSingleFile up to its loop: Open, Stat, sendFileInfo and the new
\* progress tracker (lines 235-265).
SendFileOpen ==
    /\ spc = "FileOpen"
    /\ LET size == Len(srcFiles[scur.path])
       IN  \E ok \in WriteOutcomes :
             /\ ConnWrite(sendFileInfo(FileInfo(scur.name, size, FALSE)), ok)
             /\ IF ok
                THEN /\ scur' = [scur EXCEPT !.size = size]
                     /\ progressWriter' = [progressWriter EXCEPT !["send"] =
                                              NewProgressWriter(size, SendTask)]
                     /\ spc' = "FileRead"
                     /\ UNCHANGED <<wend, sret>>
                ELSE /\ SendReturn(Result("error", sidx, "failed to send file info"))
                     /\ UNCHANGED <<scur, progressWriter>>
    /\ UNCHANGED <<rpos, rpc, rret, rfi, rfile, totalReceived, rbuf, frames, made,
                   fsVars, codecVars, srcFiles, stdin, items, sidx, walk, inDir,
                   changes, scen>>

\* file.Read(buffer) and the test n == 0 (lines 268-275).
SendFileRead ==
    LET content == srcFiles[scur.path]
        n == Min(chunkSize, Max(0, Len(content) - scur.off))
    IN  /\ spc = "FileRead"
        /\ IF n = 0
           THEN /\ spc' = "FileFinal"
                /\ UNCHANGED scur
           ELSE /\ scur' = [scur EXCEPT !.buf = SubSeq(content, scur.off + 1, scur.off + n),
                                        !.off = @ + n]
                /\ spc' = "FileWrite"
        /\ UNCHANGED <<streamVars, recvVars, fsVars, progVars, codecVars, srcFiles,
                       stdin, items, sidx, walk, inDir, sret, changes, scen>>

\* conn.Write(buffer[:n]) and the progress update (lines 277-287); on a
\* write error the deferred Finalize runs and the error goes up.
SendFileWrite ==
    /\ spc = "FileWrite"
    /\ \E ok \in WriteOutcomes, tick \in BOOLEAN :
         /\ ConnWrite(scur.buf, ok)
         /\ IF ok
            THEN /\ scur' = [scur EXCEPT !.totalSent = @ + Len(scur.buf)]
                 /\ progressWriter' = [progressWriter EXCEPT !["send"] =
                        printProgress([@ EXCEPT !.current = scur.totalSent + Len(scur.buf),
                                                !.writer = SendTask], tick)]
                 /\ spc' = "FileRead"
                 /\ UNCHANGED <<wend, sret>>
            ELSE /\ progressWriter' = [progressWriter EXCEPT !["send"] = Finalize(@)]
                 /\ SendReturn(Result("error", sidx, "write: broken pipe"))
                 /\ UNCHANGED scur
    /\ UNCHANGED <<rpos, rpc, rret, rfi, rfile, totalReceived, rbuf, frames, made,
                   fsVars, codecVars, srcFiles, stdin, items, sidx, walk, inDir,
                   changes, scen>>

\* After the loop: current = fi.FileSize, printProgress, return nil and the
\* deferred Finalize (lines 290-293, 259).
SendFileFinal ==
    /\ spc = "FileFinal"
    /\ \E tick \in BOOLEAN :
         progressWriter' = [progressWriter EXCEPT !["send"] =
             Finalize(printProgress([@ EXCEPT !.current = scur.size,
                                              !.writer = SendTask], tick))]
    /\ IF inDir
       THEN /\ spc' = "Walk"
            /\ UNCHANGED sidx
       ELSE /\ spc' = "NextItem"
            /\ sidx' = sidx + 1
    /\ UNCHANGED <<streamVars, recvVars, fsVars, codecVars, srcFiles, stdin, items,
                   walk, inDir, scur, sret, changes, scen>>

sendSingleFile == SendFileOpen \/ SendFileRead \/ SendFileWrite \/ SendFileFinal

sendFilesRaw == SendNextItem \/ SendWalk \/ sendSingleFile

DataBin == <<100, 97, 116, 97, DOT, 98, 105, 110>>

\* sendStdinRaw up to its loop (lines 617-649).
SendStdinStart ==
    /\ spc = "Stdin"
    /\ IF Len(stdin) = 0
       THEN /\ SendReturn(Result("error", 0, "no data received from stdin"))
            /\ UNCHANGED <<wire, scur, progressWriter>>
       ELSE \E ok \in WriteOutcomes :
              /\ ConnWrite(sendFileInfo(FileInfo(DataBin, Len(stdin), FALSE)), ok)
              /\ IF ok
                 THEN /\ scur' = [NoCur EXCEPT !.name = DataBin, !.size = Len(stdin)]
                      /\ progressWriter' = [progressWriter EXCEPT !["send"] =
                                               NewProgressWriter(Len(stdin), SendTask)]
                      /\ spc' = "StdinLoop"
                      /\ UNCHANGED <<wend, sret>>
                 ELSE /\ SendReturn(Result("error", 0, "failed to send file info"))
                      /\ UNCHANGED <<scur, progressWriter>>
    /\ UNCHANGED <<rpos, rpc, rret, rfi, rfile, totalReceived, rbuf, frames, made,
                   fsVars, codecVars, srcFiles, stdin, items, sidx, walk, inDir,
                   changes, scen>>

\* One round of the loop of sendStdinRaw (lines 651-674), or its end and
\* the return (lines 676-680, 642).
SendStdinLoop ==
    LET n == Min(chunkSize, Len(stdin) - scur.off)
        chunk == SubSeq(stdin, scur.off + 1, scur.off + n)
    IN  /\ spc = "StdinLoop"
        /\ \E ok \in WriteOutcomes \cup {TRUE}, tick \in BOOLEAN :
             IF n = 0
             THEN /\ ok
                  /\ progressWriter' = [progressWriter EXCEPT !["send"] =
                         Finalize(printProgress([@ EXCEPT !.current = scur.size,
                                                          !.writer = SendTask], tick))]
                  /\ SendReturn(Result("nil", 0, ""))
                  /\ UNCHANGED <<wire, scur>>
             ELSE /\ ok \in WriteOutcomes
                  /\ ConnWrite(chunk, ok)
                  /\ IF ok
                     THEN /\ scur' = [scur EXCEPT !.off = @ + n, !.totalSent = @ + n]
                          /\ progressWriter' = [progressWriter EXCEPT !["send"] =
                                 printProgress([@ EXCEPT !.current = scur.totalSent + n,
                                                         !.writer = SendTask], tick)]
                          /\ UNCHANGED <<wend, spc, sret>>
                     ELSE /\ progressWriter' = [progressWriter EXCEPT !["send"] =
                                                   Finalize(@)]
                          /\ SendReturn(Result("error", 0, "write: broken pipe"))
                          /\ UNCHANGED scur
        /\ UNCHANGED <<rpos, rpc, rret, rfi, rfile, totalReceived, rbuf, frames, made,
                       fsVars, codecVars, srcFiles, stdin, items, sidx, walk, inDir,
                       changes, scen>>

sendStdinRaw == SendStdinStart \/ SendStdinLoop

(***************************************************************************)
(* The environment of the sender                                           *)
(***************************************************************************)
\* Another process appends to the file being sent, or empties it.
SrcChange ==
    /\ spc \in {"FileRead", "FileWrite"}
    /\ changes < MaxChanges
    /\ changes' = changes + 1
    /\ \E new \in {srcFiles[scur.path] \o <<8, 9>>, <<>>} :
         /\ new # srcFiles[scur.path]
         /\ srcFiles' = [srcFiles EXCEPT ![scur.path] = new]
    /\ UNCHANGED <<streamVars, recvVars, fsVars, progVars, codecVars, stdin, items,
                   spc, sidx, walk, inDir, scur, sret, scen>>

\* The connection breaks.
ConnBreak ==
    /\ spc \notin {"NoSend", "Done"}
    /\ wend[1] = "open"
    /\ wend' = [wend EXCEPT ![1] = "reset"]
    /\ UNCHANGED <<wire, recvVars, fsVars, progVars, codecVars, sendVars, scen>>

(***************************************************************************)
(* Spec: one sending process and the receiver of its connection.           *)
(* SpecSend: the sending process alone, while a source file may change     *)
(* and the connection may break.                                           *)
(***************************************************************************)
PathD == <<CompD>>
PathDE == <<CompD, CompE>>
PathDG == <<CompD, CompG>>
PathDot == << <<DOT>> >>
PathF == <<CompF>>
PathL == <<CompL>>
PathX == <<CompX>>

ItemLists ==
    { <<PathD>>, <<PathDot>>, <<PathDE>>, <<PathF>>, <<PathF, PathD>>,
      <<PathD, PathX>>, <<PathDG, PathDE>>, <<PathX>> }

\* Lists sent from a working directory that also holds the directory l.
LongItemLists == { <<PathL>>, <<PathDot>>, <<PathL, PathD>> }

InitSender ==
    /\ sidx = 1
    /\ walk = <<>>
    /\ inDir = FALSE
    /\ scur = NoCur
    /\ sret = Result("running", 0, "")
    /\ changes = 0
    /\ \/ /\ spc = "NextItem"
          /\ stdin = <<>>
          /\ \E ca \in {<<>>, <<1, 2, 3>>}, cf \in {<<7>>, [i \in 1..(2 * chunkSize) |-> 10 + i]} :
               \/ /\ items \in ItemLists
                  /\ srcFiles = SrcFiles(ca, cf)
               \/ /\ items \in LongItemLists
                  /\ srcFiles = SrcFiles(ca, cf) @@ LongFiles
       \/ /\ spc = "Stdin"
          /\ items = <<>>
          /\ stdin \in {<<>>, <<1>>, <<1, 2, 3>>}
          /\ srcFiles = SrcFiles(<<>>, <<7>>)

InitStream ==
    /\ InitIdle
    /\ cin = NoInfo
    /\ cout = NoResult
    /\ wire = [c \in Conns |-> <<>>]
    /\ wend = [c \in Conns |-> IF c = 1 THEN "open" ELSE "eof"]
    /\ scen = [c \in Conns |-> NoScen]

Init ==
    /\ InitStream
    /\ InitSender
    /\ rpc = [c \in Conns |-> IF c = 1 THEN "AwaitingFrame" ELSE "NoConn"]

Next ==
    \/ sendFilesRaw
    \/ sendStdinRaw
    \/ \E c \in Conns : receiveFileRaw(c)

Spec == Init /\ [][Next]_vars

InitSend ==
    /\ InitStream
    /\ InitSender
    /\ rpc = [c \in Conns |-> "NoConn"]

NextSend ==
    \/ sendFilesRaw
    \/ sendStdinRaw
    \/ SrcChange
    \/ ConnBreak

SpecSend == InitSend /\ [][NextSend]_vars

\* C9: the values a counter prints never go down, and once its item is
\* over (Finalize has run) the last value printed is the declared size.
C9_ProgressMonotone ==
    \A proc \in {"send", "recv"} :
        /\ progressWriter[proc].mono
        /\ progressWriter[proc].final =>
               progressWriter[proc].obs = progressWriter[proc].total

\* The place under the receive root of source entry q of the directory p
\* sent as item.
Placed(item, q) ==
    receiveDir \o <<Last(AbsPath(item))>> \o Rel(CleanInto(<<>>, item), q)

\* Item i, a directory, was sent whole and the receiver has returned; then
\* the receive root holds, under the directory's base name, a directory for
\* the item and for every directory below it, a file with the same bytes
\* for every file below it, and nothing else; the receiver returned nil.
TreeReproduced(i) ==
    LET p == CleanInto(<<>>, items[i])
        root == Placed(items[i], p)
    IN  (IsSrcDir(p) /\ spc = "Done" /\ sidx > i /\ Returned(1)) =>
            /\ rret[1] = "nil"
            /\ root \in dirs
            /\ \A q \in SrcDirs :
                   IsPrefix(p, q) => Placed(items[i], q) \in dirs
            /\ \A q \in DOMAIN srcFiles :
                   IsPrefix(p, q) =>
                       /\ Placed(items[i], q) \in DOMAIN files
                       /\ files[Placed(items[i], q)] = srcFiles[q]
            /\ \A r \in dirs :
                   IsPrefix(root, r) =>
                       \E q \in SrcDirs \cup {p} :
                           IsPrefix(p, q) /\ r = Placed(items[i], q)
            /\ \A r \in DOMAIN files :
                   IsPrefix(root, r) =>
                       \E q \in DOMAIN srcFiles :
                           IsPrefix(p, q) /\ r = Placed(items[i], q)

SentNames(item) ==
    LET p == CleanInto(<<>>, item)
    IN  {Last(item)}
        \cup (IF IsSrcDir(p)
              THEN {FullRelPath(item, q) :
                      q \in {r \in SrcDirs \cup DOMAIN srcFiles : IsPrefix(p, r) /\ r # p}}
              ELSE {})

NamesFit(item) == \A n \in SentNames(item) : Len(n) <= maxFilenameLen

SeqLengths == {0, 1, chunkSize + 1}

SeqItem(c, k, n) == Item(NameA, FALSE, [i \in 1..n |-> 10 * c + k])

SeqLists(c) ==
    { <<SeqItem(c, 1, n)>> : n \in SeqLengths }
    \cup { <<SeqItem(c, 1, n), SeqItem(c, 2, m)>> : n \in SeqLengths, m \in SeqLengths }

InitSeq ==
    /\ InitIdle
    /\ InitNoSend
    /\ cin = NoInfo
    /\ cout = NoResult
    /\ rpc = [c \in Conns |-> "NoConn"]
    /\ wend = [c \in Conns |-> "eof"]
    /\ \E l1 \in SeqLists(1), l2 \in SeqLists(2), first \in BOOLEAN :
         /\ scen = [c \in Conns |->
                      [items |-> IF c = 2 THEN l2
                                 ELSE IF first THEN <<Item(NameD, TRUE, <<>>)>> \o l1
                                 ELSE l1,
                       whole |-> TRUE]]
         /\ wire = [c \in Conns |-> ItemsBytes(scen[c].items)]

\* A peer dials (dialer.Dial) once the transfers of the peers before it are
\* over.
Dial(c) ==
    /\ rpc[c] = "NoConn"
    /\ \A d \in Conns : d < c => rpc[d] = "Closed"
    /\ rpc' = [rpc EXCEPT ![c] = "Pending"]
    /\ UNCHANGED <<streamVars, rpos, rret, rfi, rfile, totalReceived, rbuf,
                   frames, made, fsVars, progVars, codecVars, sendVars,
                   scen>>

NextSeq ==
    \/ \E c \in Conns : Dial(c)
    \/ startServerRaw

SpecSeq == InitSeq /\ [][NextSeq]_vars

\* The connection whose transfer came last.
Latest == IF rpc[2] \in {"NoConn", "Pending"} THEN 1 ELSE 2

\* C11: whenever the latest connection stands between two items or has
\* returned, the file holds exactly the content of the last transfer it
\* received, whatever was transferred under that name before; a receiver
\* that returned, returned nil.
C11_SecondReplacesFirst ==
    LET c == Latest
        k == Len(made[c])
    IN  /\ (rpc[c] \in {"AwaitingFrame", "Closed"} /\ k >= 1
                /\ ~scen[c].items[k].isDir) =>
               /\ Join(receiveDir, NameA) \in DOMAIN files
               /\ files[Join(receiveDir, NameA)] = scen[c].items[k].content
        /\ \A d \in Conns : Returned(d) => rret[d] = "nil"

\* The second connection has replaced three bytes left by the first
\* connection with one byte, after an earlier transfer of its own.
C11_Witness ==
    /\ Returned(1)
    /\ Returned(2)
    /\ Len(Last(scen[1].items).content) = chunkSize + 1
    /\ Len(scen[2].items) = 2
    /\ Len(scen[2].items[1].content) = chunkSize + 1
    /\ Len(scen[2].items[2].content) = 1
    /\ files[Join(receiveDir, NameA)] = <<22>>

(***************************************************************************)
(* What a sender puts on the stream for the entries of a source tree that  *)
(* does not change.                                                        *)
(***************************************************************************)
\* The bytes of the file at path q sent under name.
FileBytes(name, q) ==
    sendFileInfo(FileInfo(name, Len(srcFiles[q]), FALSE)) \o srcFiles[q]

\* The bytes of a directory descriptor.
DirBytes(name) == sendFileInfo(FileInfo(name, 0, TRUE))

\* The bytes of the descendant q of the directory sent as item.
EntryBytes(item, q) ==
    IF q \in SrcDirs THEN DirBytes(FullRelPath(item, q))
    ELSE FileBytes(FullRelPath(item, q), q)

\* The bytes of a whole item of the list.
SentBytes(item) ==
    LET p == CleanInto(<<>>, item)
        w == WalkFrom(p)
    IN  IF IsSrcDir(p)
        THEN DirBytes(Last(item)) \o Flatten([k \in 1..Len(w) |-> EntryBytes(item, w[k])])
        ELSE FileBytes(Last(item), p)

\* The bytes of the first n items of the list.
SentBefore(n) == Flatten([j \in 1..n |-> SentBytes(items[j])])

\* C12: when sendFilesRaw has returned an error and no source file changed
\* meanwhile, the error names the item that was being sent, the stream
\* holds the complete bytes of the items before it followed by a proper
\* beginning of the failed item's bytes (nothing of it when its path could
\* not be statted), and nothing of a later item.
C12_FailFast ==
    (items # <<>> /\ sret.kind = "error" /\ changes = 0) =>
        LET i == sret.item
            rest == Drop(wire[1], Len(SentBefore(i - 1)))
        IN  /\ spc = "Done"
            /\ i = sidx
            /\ i \in 1..Len(items)
            /\ IsPrefix(SentBefore(i - 1), wire[1])
            /\ IF ~SrcExists(CleanInto(<<>>, items[i]))
               THEN rest = <<>>
               ELSE /\ IsPrefix(rest, SentBytes(items[i]))
                    /\ rest # SentBytes(items[i])

\* The directory d was sent whole and the second item, whose path does not
\* exist, made sendFilesRaw return an error.
C12_Witness ==
    /\ items = <<PathD, PathX>>
    /\ sret.kind = "error"
    /\ sret.item = 2
    /\ changes = 0
    /\ wire[1] = SentBytes(PathD)
    /\ Len(wire[1]) > 13

(***************************************************************************)
(* SpecPath: one connection whose peer sends one item under a name of its  *)
(* choice, among them names with ".." components and with a leading '/'.   *)
(***************************************************************************)
NameUpX == <<DOT, DOT, SLASH, 120>>
NameUp == <<DOT, DOT>>
NameUpUpX == <<DOT, DOT, SLASH, DOT, DOT, SLASH, 120>>
NameDUpUpX == <<100, SLASH, DOT, DOT, SLASH, DOT, DOT, SLASH, 120>>
NameRootX == <<SLASH, 120>>
NameDUpA == <<100, SLASH, DOT, DOT, SLASH, 97>>

PathNames ==
    {NameA, NameDA, NameUpX, NameUp, NameUpUpX, NameDUpUpX, NameRootX, NameDUpA}

PathItems ==
    { Item(n, d, ct) : n \in PathNames, d \in BOOLEAN, ct \in {<<>>, <<1, 2, 3>>} }
    \ { Item(n, TRUE, <<1, 2, 3>>) : n \in PathNames }

InitPath ==
    /\ InitIdle
    /\ InitNoSend
    /\ cin = NoInfo
    /\ cout = NoResult
    /\ rpc = [c \in Conns |-> IF c = 1 THEN "AwaitingFrame" ELSE "NoConn"]
    /\ wend = [c \in Conns |-> "eof"]
    /\ \E it \in PathItems :
         /\ scen = [c \in Conns |->
                      IF c = 1 THEN [items |-> <<it>>, whole |-> TRUE] ELSE NoScen]
         /\ wire = [c \in Conns |-> ItemsBytes(scen[c].items)]

SpecPath == InitPath /\ [][NextRecv]_vars

\* C13: every directory and every file of the receiver's file system lies
\* at or below the receive root.
C13_InsideReceiveRoot ==
    \A p \in dirs \cup DOMAIN files : IsPrefix(receiveDir, p)

(***************************************************************************)
(* Claims about the sender                                                 *)
(***************************************************************************)
\* sendSingleFile (or the loop of sendStdinRaw) has returned nil for the
\* file whose locals scur still holds.
FileSentOk == spc \in {"Walk", "NextItem", "Done"} /\ sret.kind # "error"

\* C14: when sendSingleFile has returned nil, the number of content bytes
\* it wrote after the descriptor is the size the descriptor declared.
C14_DeclaredSizeSent ==
    FileSentOk => scur.totalSent = scur.size

IsSuffix(t, s) == Len(t) <= Len(s) /\ SubSeq(s, Len(s) - Len(t) + 1, Len(s)) = t

\* sendSingleFile is in or right after its loop, or has just returned nil
\* to the loop over the items.
InSingleFile ==
    \/ spc \in {"FileRead", "FileWrite", "FileFinal"}
    \/ spc = "NextItem" /\ ~inDir /\ scur.path # <<>>

\* C15: while a file whose content did not change is being sent, the
\* declared size is the file's length, the stream ends with the file's
\* descriptor followed by the first totalSent bytes of the file and nothing
\* else, at most one chunk of at most chunkSize bytes has been read and not
\* yet written, and when the loop is over totalSent is the declared size.
C15_FileItemBytes ==
    (InSingleFile /\ changes = 0) =>
        LET content == srcFiles[scur.path]
            fi == FileInfo(scur.name, Len(content), FALSE)
        IN  /\ scur.size = Len(content)
            /\ scur.totalSent <= scur.size
            /\ IsSuffix(sendFileInfo(fi) \o Take(content, scur.totalSent), wire[1])
            /\ IF spc = "FileWrite"
               THEN /\ Len(scur.buf) \in 1..chunkSize
                    /\ scur.off = scur.totalSent + Len(scur.buf)
                    /\ scur.buf = SubSeq(content, scur.totalSent + 1, scur.off)
               ELSE scur.off = scur.totalSent
            /\ spc \in {"FileFinal", "NextItem"} => scur.totalSent = scur.size

\* The loop over the three bytes of d/a is over and the file did not change.
C15_Witness ==
    /\ spc = "FileFinal"
    /\ scur.path = <<CompD, CompA>>
    /\ scur.totalSent = 3
    /\ srcFiles[scur.path] = <<1, 2, 3>>
    /\ changes = 0

(***************************************************************************)
(* Claims about the bytes receiveFileRaw takes from the stream             *)
(***************************************************************************)
\* The frame the receiver of connection c decoded last.
LastFrame(c) == receiveFileInfo(wire[c], wend[c], Last(frames[c]))

\* C16: with d the frame decoded last, N its declared size and start the
\* offset right after it: the receiver has read nothing after the frame
\* before the file is created; in the content loop it has read
\* totalReceived bytes after the frame, never more than N, the chunk read
\* and not yet written is at most chunkSize bytes and at most the bytes
\* still remaining, and the file holds the bytes read in stream order; when
\* the loop is over totalReceived is N; and when the receiver is back at
\* the head of its loop it has read exactly N bytes after a file's frame
\* and the file holds them, and no byte after a directory's frame.
C16_ExactContentBytes ==
    \A c \in Conns :
        (frames[c] # <<>> /\ rpc[c] \notin {"NoConn", "Pending", "Closed"}) =>
            LET d == LastFrame(c)
                N == d.fi.FileSize
                start == d.pos
                got == totalReceived[c]
            IN  /\ d.err = "nil"
                /\ N >= 0
                /\ rpc[c] \in {"Place", "NewProgress"} => rpos[c] = start
                /\ rpc[c] \in InFlight =>
                       /\ rpos[c] <= start + N
                       /\ rfile[c].path = Join(receiveDir, d.fi.Filename)
                       /\ files[rfile[c].path] = SubSeq(wire[c], start + 1, start + got)
                       /\ IF rpc[c] = "WriteChunk"
                          THEN /\ Len(rbuf[c].data) <= chunkSize
                               /\ Len(rbuf[c].data) <= N - got
                               /\ rpos[c] = start + got + Len(rbuf[c].data)
                               /\ rbuf[c].data = SubSeq(wire[c], start + got + 1, rpos[c])
                          ELSE rpos[c] = start + got
                       /\ rpc[c] \in {"CloseFile", "SetFinal", "PrintFinal", "Finalize"}
                              => got = N
                /\ rpc[c] = "AwaitingFrame" =>
                       IF d.fi.IsDirectory THEN rpos[c] = start
                       ELSE /\ rpos[c] = start + N
                            /\ files[Join(receiveDir, d.fi.Filename)]
                                   = SubSeq(wire[c], start + 1, start + N)

\* A file of three bytes has been received whole, in two reads or more, and
\* the stream goes on after it.
C16_Witness ==
    /\ rpc[1] = "AwaitingFrame"
    /\ Len(frames[1]) = 1
    /\ ~rfi[1].IsDirectory
    /\ rfi[1].FileSize = 3
    /\ totalReceived[1] = 3
    /\ rpos[1] < Len(wire[1])

\* C17: the name in the descriptor sendSingleFile has written is at most
\* 255 bytes long, and no receiver has rejected a frame of the sender as
\* declaring a name that is too long.
C17_SentNamesFit ==
    /\ spc \in {"FileRead", "FileWrite", "FileFinal"} =>
           Len(scur.name) <= maxFilenameLen
    /\ \A c \in Conns : rret[c] # Wrapped(ErrTooLong)

\* The sender's counter is the one of the item whose locals scur holds:
\* the item is being sent, or its sending was aborted by a write error.
CounterOfCurrentItem ==
    \/ spc \in {"FileRead", "FileWrite", "FileFinal", "StdinLoop"}
    \/ spc = "Done" /\ sret.cause = "write: broken pipe"

\* C18: when the last value printed for the sender's current item is the
\* declared total (no source file having changed), all of the item's
\* declared bytes have been written to the connection.
C18_TotalOnlyWhenComplete ==
    LET pw == progressWriter["send"]
    IN  (CounterOfCurrentItem /\ changes = 0 /\ pw.seen /\ pw.obs = pw.total) =>
            scur.totalSent = pw.total

\* The name the claim gives to the descendant q of the directory sent as
\* item: the name of the root descriptor, '/', the path relative to the root.
RootedName(item, q) ==
    Last(item) \o <<SLASH>> \o ToSlash(Rel(CleanInto(<<>>, item), q))

\* The bytes of a directory item whose descendants carry those names: the
\* root descriptor, then in the order of the walk a directory descriptor for
\* a directory and a file item for a file.
RootedBytes(item) ==
    LET w == WalkFrom(CleanInto(<<>>, item))
    IN  DirBytes(Last(item))
        \o Flatten([k \in 1..Len(w) |->
                      IF w[k] \in SrcDirs THEN DirBytes(RootedName(item, w[k]))
                      ELSE FileBytes(RootedName(item, w[k]), w[k])])

\* In the walk below p every entry comes after its parent directory.
ParentFirst(p) ==
    LET w == WalkFrom(p)
    IN  \A k \in 1..Len(w) :
            Front(w[k]) = p \/ \E j \in 1..(k - 1) : w[j] = Front(w[k])

\* C19: when a directory item has been sent whole, the bytes written for
\* it are its root descriptor followed, parents first, by one directory
\* descriptor (size 0, isDirectory 1, no content) per descendant directory
\* and one file item per descendant file, each named
\* <root name>/<path relative to the root>.
C19_DirectoryFrames ==
    \A i \in 1..Len(items) :
        LET p == CleanInto(<<>>, items[i])
            from == Len(SentBefore(i - 1))
        IN  (SrcExists(p) /\ IsSrcDir(p) /\ sidx > i /\ changes = 0) =>
                /\ ParentFirst(p)
                /\ SubSeq(wire[1], from + 1, from + Len(RootedBytes(items[i])))
                       = RootedBytes(items[i])

(***************************************************************************)
(* Claims about the receiver's output file                                 *)
(***************************************************************************)
\* The steps of receiveFileRaw between os.Create and file.Close().
FileOpenSteps ==
    {"NewProgress", "ReadChunk", "WriteChunk", "SetCurrent", "PrintProgress",
     "CloseFile"}

====
